---- MODULE Spec2Model ----
(***************************************************************************)
(* The habit tracker of src/appraju.py as a state machine: the Habit and   *)
(* Completion tables, the three mutating request handlers (create_habit,   *)
(* delete_habit, toggle_completion), the month summary (get_habits) and    *)
(* the start of the application (init_db).                                 *)
(*                                                                         *)
(* Representation.  A string is a sequence of one-character strings.  A    *)
(* date is a record [y, m, d].  A Habit row is [id, name, color]; its      *)
(* emoji and created_at columns are read by no handler's control flow and  *)
(* are left out.  The Completion table is a bag of <<habit_id, date>>      *)
(* rows: the surrogate key Completion.id is left out, the multiplicity of  *)
(* a row is kept, so that two rows for one (habit_id, date) pair are       *)
(* representable.  Completion.completed is True on every row the program   *)
(* writes (line 50, line 629) and is left out.  A percentage is held in    *)
(* tenths of a percent (33.3 is 333).                                      *)
(***************************************************************************)
EXTENDS Integers, Sequences, FiniteSets, Bags, TLC

VARIABLES
  habits,       \* the Habit table: a set of Habit rows
  completions,  \* the Completion table: a bag of <<habit_id, date>> rows
  req,          \* the request answered last
  resp,         \* its response
  tx,           \* what its handler did with db.session: none, commit, rollback
  pre,          \* the two tables as they were before that request
  prev,         \* the request answered before it, when a toggle or delete that succeeded
  inflight,     \* SpecRace: toggle_completion requests between read and commit
  seeded        \* SpecStart: how many times init_db has inserted the sample habits

vars == <<habits, completions, req, resp, tx, pre, prev, inflight, seeded>>

(***************************************************************************)
(* Bounds of the model.                                                    *)
(***************************************************************************)
\* Habit ids run over 1..MaxHabitId: create_habit is not taken beyond it.
MaxHabitId == 2

\* Habits in the stores SpecAgg starts from.
MaxAggHabits == 2

\* init_db is not taken to insert the sample habits more often than this.
MaxSeeds == 2

(***************************************************************************)
(* Program constants.                                                      *)
(***************************************************************************)
\* line 567: len(name) > 100
MaxNameLen == 100

\* lines 570-571
colors ==
  << "bg-orange-100", "bg-blue-100", "bg-purple-100", "bg-green-100",
     "bg-yellow-100", "bg-red-100", "bg-pink-100", "bg-indigo-100" >>

(***************************************************************************)
(* Generic helpers.                                                        *)
(***************************************************************************)
SetMax(S) == CHOOSE x \in S : \A y \in S : y <= x

Maximum(a, b) == IF a >= b THEN a ELSE b

\* The elements of a finite set of integers in ascending order.
RECURSIVE SortedSeq(_)
SortedSeq(S) ==
  IF S = {} THEN << >>
  ELSE LET lo == CHOOSE x \in S : \A y \in S : x <= y
       IN  <<lo>> \o SortedSeq(S \ {lo})

Rep(c, n) == [i \in 1..n |-> c]

(***************************************************************************)
(* Calendar: datetime.date, calendar.monthrange, timedelta(days=1).        *)
(***************************************************************************)
Date(y, m, d) == [y |-> y, m |-> m, d |-> d]

IsLeap(y) == (y % 4 = 0) /\ ((y % 100 # 0) \/ (y % 400 = 0))

\* calendar.monthrange(year, month)[1]
DaysInMonth(y, m) ==
  IF m = 2 THEN (IF IsLeap(y) THEN 29 ELSE 28)
  ELSE IF m \in {4, 6, 9, 11} THEN 30 ELSE 31

\* The date constructor's check: it raises ValueError outside these ranges.
ValidDate(y, m, d) ==
  /\ y \in 1..9999
  /\ m \in 1..12
  /\ d \in 1..DaysInMonth(y, m)

\* date comparison: lexicographic on (year, month, day)
DateLT(a, b) ==
  \/ a.y < b.y
  \/ a.y = b.y /\ a.m < b.m
  \/ a.y = b.y /\ a.m = b.m /\ a.d < b.d

DateLE(a, b) == a = b \/ DateLT(a, b)

DateMin(a, b) == IF DateLE(a, b) THEN a ELSE b

\* d - timedelta(days=1)
PrevDay(a) ==
  IF a.d > 1 THEN Date(a.y, a.m, a.d - 1)
  ELSE IF a.m > 1 THEN Date(a.y, a.m - 1, DaysInMonth(a.y, a.m - 1))
  ELSE Date(a.y - 1, 12, 31)

\* d + timedelta(days=1)
NextDay(a) ==
  IF a.d < DaysInMonth(a.y, a.m) THEN Date(a.y, a.m, a.d + 1)
  ELSE IF a.m < 12 THEN Date(a.y, a.m + 1, 1)
  ELSE Date(a.y + 1, 1, 1)

\* (b - a).days = 1
OneDayApart(a, b) == b = NextDay(a)

\* first_day, last_day of lines 483-484
FirstDay(y, m) == Date(y, m, 1)

LastDay(y, m) == Date(y, m, DaysInMonth(y, m))

InMonth(a, y, m) == DateLE(FirstDay(y, m), a) /\ DateLE(a, LastDay(y, m))

(***************************************************************************)
(* Strings: str(int), str(date), str.strip, str.endswith, strptime.        *)
(***************************************************************************)
Digits == <<"0", "1", "2", "3", "4", "5", "6", "7", "8", "9">>

DigitChar(n) == Digits[n + 1]

IsDigit(c) == \E i \in 1..10 : Digits[i] = c

DigitVal(c) == (CHOOSE i \in 1..10 : Digits[i] = c) - 1

\* str(n) for n >= 0
RECURSIVE IntToStr(_)
IntToStr(n) ==
  IF n < 10 THEN <<DigitChar(n)>>
  ELSE IntToStr(n \div 10) \o <<DigitChar(n % 10)>>

\* str(date): date.isoformat(), "%04d-%02d-%02d"
FormatDate(a) ==
  << DigitChar(a.y \div 1000), DigitChar((a.y \div 100) % 10),
     DigitChar((a.y \div 10) % 10), DigitChar(a.y % 10), "-",
     DigitChar(a.m \div 10), DigitChar(a.m % 10), "-",
     DigitChar(a.d \div 10), DigitChar(a.d % 10) >>

\* k.endswith(s): the last Len(s) characters of k are those of s, compared
\* from the last one back
EndsWith(k, s) ==
  /\ Len(s) <= Len(k)
  /\ \A i \in 0..(Len(s) - 1) : k[Len(k) - i] = s[Len(s) - i]

IsSpace(c) == c \in {" ", "\t", "\n"}

RECURSIVE LStrip(_)
LStrip(s) ==
  IF s # << >> /\ IsSpace(Head(s)) THEN LStrip(Tail(s)) ELSE s

RECURSIVE RStrip(_)
RStrip(s) ==
  IF s # << >> /\ IsSpace(s[Len(s)]) THEN RStrip(SubSeq(s, 1, Len(s) - 1)) ELSE s

\* str.strip()
Strip(s) == RStrip(LStrip(s))

(***************************************************************************)
(* JSON request bodies.  A value is null, a string, an integer or an       *)
(* object (a function from key strings to values).                         *)
(***************************************************************************)
JNull == [t |-> "null"]

JStr(s) == [t |-> "str", s |-> s]

JInt(n) == [t |-> "int", n |-> n]

JObj(f) == [t |-> "obj", f |-> f]

EmptyObj == JObj([k \in {} |-> JNull])

\* Python's truth value of request.json: None and {} are false.
Truthy(data) ==
  /\ data.t # "null"
  /\ data.t = "obj" => DOMAIN data.f # {}

HasKey(data, k) == data.t = "obj" /\ k \in DOMAIN data.f

\* str(v) of a JSON value
StrOf(v) ==
  IF v.t = "str" THEN v.s
  ELSE IF v.t = "int" THEN IntToStr(v.n)
  ELSE <<"N", "o", "n", "e">>

\* int(v), line 610: [ok, n] or the exception raised.  A string is stripped
\* and must be decimal digits; None raises TypeError.
IntOf(v) ==
  IF v.t = "int" THEN [ok |-> TRUE, n |-> v.n]
  ELSE IF v.t = "str"
    THEN LET s == Strip(v.s)
         IN  IF s # << >> /\ \A i \in 1..Len(s) : IsDigit(s[i])
               THEN [ok |-> TRUE,
                     n |-> LET RECURSIVE Val(_)
                               Val(k) == IF k = 0 THEN 0
                                         ELSE 10 * Val(k - 1) + DigitVal(s[k])
                           IN  Val(Len(s))]
               ELSE [ok |-> FALSE, exc |-> "ValueError"]
  ELSE [ok |-> FALSE, exc |-> "TypeError"]

\* The regex of %m: 1[0-2]|0[1-9]|[1-9], tried in this order at position i.
ParseMonthAt(s, i) ==
  LET c1 == IF i <= Len(s) THEN s[i] ELSE ""
      c2 == IF i + 1 <= Len(s) THEN s[i + 1] ELSE ""
  IN  IF c1 = "1" /\ c2 \in {"0", "1", "2"}
        THEN [ok |-> TRUE, val |-> 10 + DigitVal(c2), next |-> i + 2]
      ELSE IF c1 = "0" /\ IsDigit(c2) /\ c2 # "0"
        THEN [ok |-> TRUE, val |-> DigitVal(c2), next |-> i + 2]
      ELSE IF IsDigit(c1) /\ c1 # "0"
        THEN [ok |-> TRUE, val |-> DigitVal(c1), next |-> i + 1]
      ELSE [ok |-> FALSE, val |-> 0, next |-> i]

\* The regex of %d: 3[01]|[12]\d|0[1-9]|[1-9]| [1-9], tried in this order.
ParseDayAt(s, i) ==
  LET c1 == IF i <= Len(s) THEN s[i] ELSE ""
      c2 == IF i + 1 <= Len(s) THEN s[i + 1] ELSE ""
  IN  IF c1 = "3" /\ c2 \in {"0", "1"}
        THEN [ok |-> TRUE, val |-> 30 + DigitVal(c2), next |-> i + 2]
      ELSE IF c1 \in {"1", "2"} /\ IsDigit(c2)
        THEN [ok |-> TRUE, val |-> 10 * DigitVal(c1) + DigitVal(c2), next |-> i + 2]
      ELSE IF c1 = "0" /\ IsDigit(c2) /\ c2 # "0"
        THEN [ok |-> TRUE, val |-> DigitVal(c2), next |-> i + 2]
      ELSE IF IsDigit(c1) /\ c1 # "0"
        THEN [ok |-> TRUE, val |-> DigitVal(c1), next |-> i + 1]
      ELSE IF c1 = " " /\ IsDigit(c2) /\ c2 # "0"
        THEN [ok |-> TRUE, val |-> DigitVal(c2), next |-> i + 2]
      ELSE [ok |-> FALSE, val |-> 0, next |-> i]

\* datetime.strptime(v, '%Y-%m-%d').date(), line 614: [ok, date] or the
\* exception raised.  %Y is exactly four digits; the whole string must be
\* consumed; the date constructor rejects a day the month does not have.
StrpDate(v) ==
  IF v.t # "str" THEN [ok |-> FALSE, exc |-> "TypeError"]
  ELSE
    LET s == v.s
        yOk == Len(s) >= 5 /\ (\A i \in 1..4 : IsDigit(s[i])) /\ s[5] = "-"
        y == 1000 * DigitVal(s[1]) + 100 * DigitVal(s[2])
               + 10 * DigitVal(s[3]) + DigitVal(s[4])
        mm == ParseMonthAt(s, 6)
        mOk == mm.ok /\ mm.next <= Len(s) /\ s[mm.next] = "-"
        dd == ParseDayAt(s, mm.next + 1)
    IN  IF yOk /\ mOk /\ dd.ok /\ dd.next = Len(s) + 1 /\ ValidDate(y, mm.val, dd.val)
          THEN [ok |-> TRUE, date |-> Date(y, mm.val, dd.val)]
          ELSE [ok |-> FALSE, exc |-> "ValueError"]

(***************************************************************************)
(* The tables.                                                             *)
(***************************************************************************)
\* class Habit, lines 38-44
Habit(id, name, color) == [id |-> id, name |-> name, color |-> color]

\* class Completion, lines 46-52
Completion(habit_id, date) == <<habit_id, date>>

HabitIds(hs) == {h.id : h \in hs}

\* The rowid SQLite gives an INTEGER PRIMARY KEY on insert: one more than
\* the largest in the table, so the id of a deleted last row is given again.
NewRowId(ids) == IF ids = {} THEN 1 ELSE SetMax(ids) + 1

\* Faulty variant of idx_habit_date: an index that is not unique admits every row.
idx_habit_date_NotUnique(cs, row) == TRUE

\* idx_habit_date, line 52, the unique index on (habit_id, date): whether it
\* admits the insert of row into the table
idx_habit_date(cs, row) == ~BagIn(row, cs)

\* Completion.query.filter_by(habit_id=..., date=...).first(), lines 621-624
FirstCompletion(cs, habit_id, date) == BagIn(Completion(habit_id, date), cs)

\* Faulty variant of Cascade: the relationship without its cascade, the rows stay.
Cascade_None(cs, habit_id) == cs

\* Habit.completions with cascade='all, delete-orphan', line 44: deleting a
\* habit deletes every Completion row of that habit_id.
Cascade(cs, habit_id) ==
  LET keep == {r \in BagToSet(cs) : r[1] # habit_id}
  IN  [r \in keep |-> cs[r]]

\* Faulty variant of HabitExists: the habit is not looked up, every id passes.
HabitExists_Any(hs, id) == TRUE

\* Habit.query.get_or_404(id): found, or NotFound raised
HabitExists(hs, id) == id \in HabitIds(hs)

(***************************************************************************)
(* Responses.                                                              *)
(***************************************************************************)
ErrorResp(status, msg) == [status |-> status, kind |-> "error", error |-> msg]

\* What a handler leaves: the tables, the response, the session's fate.
Outcome(hs, cs, r, t) == [habits |-> hs, completions |-> cs, resp |-> r, tx |-> t]

\* except Exception: log, db.session.rollback(), 500 with a generic message
Rollback(hs, cs, msg) == Outcome(hs, cs, ErrorResp(500, msg), "rollback")

\* a validation error returned before anything is written
Reject(hs, cs, msg) == Outcome(hs, cs, ErrorResp(400, msg), "none")

(***************************************************************************)
(* POST /api/habits                                                        *)
(***************************************************************************)
\* Faulty variant of ValidName: the length is not checked.
ValidName_NoMax(name) == name # << >>

\* line 567: not (not name or len(name) > 100)
ValidName(name) == name # << >> /\ Len(name) <= MaxNameLen

\* line 576: colors[len(Habit.query.all()) % len(colors)]
NextColor(hs) == colors[(Cardinality(hs) % Len(colors)) + 1]

\* create_habit, lines 556-586.  fail: db.session.commit() raises.
create_habit(hs, cs, data, fail) ==
  IF ~Truthy(data) \/ ~HasKey(data, "name")
    THEN Reject(hs, cs, "Habit name is required")
  ELSE
    LET name == Strip(StrOf(data.f["name"]))
        id == NewRowId(HabitIds(hs))
    IN  IF ~ValidName(name)
          THEN Reject(hs, cs, "Habit name must be between 1-100 characters")
        ELSE IF fail
          THEN Rollback(hs, cs, "Failed to create habit")
        ELSE Outcome(hs \cup {Habit(id, name, NextColor(hs))}, cs,
                     [status |-> 201, kind |-> "created", id |-> id], "commit")

(***************************************************************************)
(* DELETE /api/habits/<int:habit_id>                                       *)
(***************************************************************************)
\* Faulty variant of delete_habit: a commit that fails leaves the habit removed and
\* its rows kept.
delete_habit_HalfDeleted(hs, cs, habit_id, fail) ==
  IF ~(habit_id \in {h.id : h \in hs})
    THEN Rollback(hs, cs, "Failed to delete habit")
  ELSE IF fail
    THEN Outcome({h \in hs : h.id # habit_id}, cs,
                 ErrorResp(500, "Failed to delete habit"), "rollback")
  ELSE Outcome({h \in hs : h.id # habit_id}, Cascade(cs, habit_id),
               [status |-> 204, kind |-> "deleted"], "commit")

\* delete_habit, lines 588-600.  get_or_404 raises NotFound inside the try
\* block; NotFound is an Exception, so line 597 catches it.
delete_habit(hs, cs, habit_id, fail) ==
  IF ~HabitExists(hs, habit_id)
    THEN Rollback(hs, cs, "Failed to delete habit")
  ELSE IF fail
    THEN Rollback(hs, cs, "Failed to delete habit")
  ELSE Outcome({h \in hs : h.id # habit_id}, Cascade(cs, habit_id),
               [status |-> 204, kind |-> "deleted"], "commit")

(***************************************************************************)
(* POST /api/completions                                                   *)
(***************************************************************************)
\* Lines 604-619, up to the lookup: the parsed target, or the response of an
\* early return or of a caught exception.
toggle_validate(hs, cs, data) ==
  IF ~Truthy(data) \/ ~HasKey(data, "habit_id") \/ ~HasKey(data, "date")
    THEN [ok |-> FALSE, out |-> Reject(hs, cs, "habit_id and date are required")]
  ELSE
    LET hid == IntOf(data.f["habit_id"])
        dt == StrpDate(data.f["date"])
    IN  IF ~hid.ok
          THEN [ok |-> FALSE,
                out |-> IF hid.exc = "ValueError"
                          THEN Reject(hs, cs, "Invalid input data")
                          ELSE Rollback(hs, cs, "Failed to toggle completion")]
        ELSE IF ~dt.ok
          THEN [ok |-> FALSE,
                out |-> IF dt.exc = "ValueError"
                          THEN Reject(hs, cs, "Invalid date format. Use YYYY-MM-DD")
                          ELSE Rollback(hs, cs, "Failed to toggle completion")]
        ELSE IF ~HabitExists(hs, hid.n)
          THEN [ok |-> FALSE, out |-> Rollback(hs, cs, "Failed to toggle completion")]
        ELSE [ok |-> TRUE, habit_id |-> hid.n, date |-> dt.date]

\* Faulty variant of toggle_write: a row that was found is not deleted.
toggle_write_KeepsRow(hs, cs, habit_id, date, found, fail) ==
  IF fail \/ (~found /\ ~idx_habit_date(cs, Completion(habit_id, date)))
    THEN Rollback(hs, cs, "Failed to toggle completion")
  ELSE Outcome(hs, IF found THEN cs ELSE cs (+) SetToBag({Completion(habit_id, date)}),
               [status |-> 200, kind |-> "toggled"], "commit")

\* Faulty variant of toggle_write: a row is added whether or not one was found, and
\* the flush does not refuse it.
toggle_write_AlwaysInserts(hs, cs, habit_id, date, found, fail) ==
  IF fail THEN Rollback(hs, cs, "Failed to toggle completion")
  ELSE Outcome(hs, cs (+) SetToBag({Completion(habit_id, date)}),
               [status |-> 200, kind |-> "toggled"], "commit")

\* Lines 626-633: delete the row read, or insert one, and commit.  found is
\* what the lookup of lines 621-624 returned.  The insert is refused by the
\* unique index when the pair is in the table (IntegrityError at the flush);
\* a delete of a row that is gone matches no row and changes nothing.
toggle_write(hs, cs, habit_id, date, found, fail) ==
  LET row == Completion(habit_id, date)
  IN  IF found
        THEN IF fail THEN Rollback(hs, cs, "Failed to toggle completion")
             ELSE Outcome(hs, cs (-) SetToBag({row}),
                          [status |-> 200, kind |-> "toggled"], "commit")
      ELSE IF fail \/ ~idx_habit_date(cs, row)
        THEN Rollback(hs, cs, "Failed to toggle completion")
      ELSE Outcome(hs, cs (+) SetToBag({row}),
                   [status |-> 200, kind |-> "toggled"], "commit")

\* toggle_completion, lines 602-639, as one transaction
toggle_completion(hs, cs, data, fail) ==
  LET v == toggle_validate(hs, cs, data)
  IN  IF ~v.ok THEN v.out
      ELSE toggle_write(hs, cs, v.habit_id, v.date,
                        FirstCompletion(cs, v.habit_id, v.date), fail)

(***************************************************************************)
(* GET /api/habits?year=Y&month=M                                          *)
(***************************************************************************)
Range(f) == {f[i] : i \in DOMAIN f}

\* Completion.query.filter_by(habit_id=habit.id, completed=True)
\*   .order_by(Completion.date.asc()).all(), then [comp.date ...]: lines
\* 491-492.  One entry per row, ascending.
HabitDates(cs, habit_id) ==
  LET ds == {r[2] : r \in {q \in BagToSet(cs) : q[1] = habit_id}}
      RECURSIVE Asc(_)
      Asc(S) ==
        IF S = {} THEN << >>
        ELSE LET lo == CHOOSE a \in S : \A b \in S : DateLE(a, b)
             IN  Rep(lo, CopiesIn(Completion(habit_id, lo), cs)) \o Asc(S \ {lo})
  IN  Asc(ds)

\* sorted(month_dates), line 505: insertion into an ascending sequence
RECURSIVE Sorted(_)
Sorted(s) ==
  IF s = << >> THEN << >>
  ELSE LET rest == Sorted(Tail(s))
           x == Head(s)
           n == Cardinality({i \in 1..Len(rest) : DateLT(rest[i], x)})
       IN  SubSeq(rest, 1, n) \o <<x>> \o SubSeq(rest, n + 1, Len(rest))

\* Faulty variant of WalkBack: the walk does not stop at the first day of the month.
RECURSIVE WalkBack_NoFloor(_, _, _)
WalkBack_NoFloor(cur, first_day, dates) ==
  IF cur \in Range(dates)
    THEN 1 + WalkBack_NoFloor(PrevDay(cur), first_day, dates)
    ELSE 0

\* The while loop of lines 497-499, from current_check_date = cur.
RECURSIVE WalkBack(_, _, _)
WalkBack(cur, first_day, dates) ==
  IF DateLE(first_day, cur) /\ cur \in Range(dates)
    THEN 1 + WalkBack(PrevDay(cur), first_day, dates)
    ELSE 0

\* Faulty variant of StartDate: the walk starts from today whatever the month.
StartDate_Today(today, last_day) == today

\* line 496: current_check_date = min(today, last_day)
StartDate(today, last_day) == DateMin(today, last_day)

\* lines 495-499
CurrentStreak(dates, today, first_day, last_day) ==
  WalkBack(StartDate(today, last_day), first_day, dates)

\* Faulty variant of BestLoop: temp_streak is not counted up (line 509 left out).
RECURSIVE BestLoop_NoCount(_, _, _, _)
BestLoop_NoCount(sorted_dates, i, best, temp) ==
  IF i > Len(sorted_dates) THEN <<best, temp>>
  ELSE IF OneDayApart(sorted_dates[i - 1], sorted_dates[i])
    THEN BestLoop_NoCount(sorted_dates, i + 1, best, temp)
    ELSE BestLoop_NoCount(sorted_dates, i + 1, Maximum(best, temp), 1)

\* The for loop of lines 507-512 from index i, with best_streak = best and
\* temp_streak = temp; its value is the pair it ends with.
RECURSIVE BestLoop(_, _, _, _)
BestLoop(sorted_dates, i, best, temp) ==
  IF i > Len(sorted_dates) THEN <<best, temp>>
  ELSE IF OneDayApart(sorted_dates[i - 1], sorted_dates[i])
    THEN BestLoop(sorted_dates, i + 1, best, temp + 1)
    ELSE BestLoop(sorted_dates, i + 1, Maximum(best, temp), 1)

\* Faulty variant of MonthDates: the dates are not restricted to the month.
MonthDates_All(dates, first_day, last_day) == dates

\* line 503: [d for d in dates if first_day <= d <= last_day]
MonthDates(dates, first_day, last_day) ==
  SelectSeq(dates, LAMBDA d : DateLE(first_day, d) /\ DateLE(d, last_day))

\* Faulty variant of BestStreak: without line 513, the run the loop ends in is lost.
BestStreak_NoFinalMax(dates, first_day, last_day) ==
  LET month_dates == SelectSeq(dates, LAMBDA d : DateLE(first_day, d) /\ DateLE(d, last_day))
  IN  IF month_dates = << >> THEN 0
      ELSE BestLoop(Sorted(month_dates), 2, 0, 1)[1]

\* lines 502-513
BestStreak(dates, first_day, last_day) ==
  LET month_dates == MonthDates(dates, first_day, last_day)
  IN  IF month_dates = << >> THEN 0
      ELSE LET e == BestLoop(Sorted(month_dates), 2, 0, 1)
           IN  Maximum(e[1], e[2])

\* line 527: f"{habit.id}-{comp.date}"
Key(habit_id, date) == IntToStr(habit_id) \o <<"-">> \o FormatDate(date)

\* lines 520-528, over every habit: the keys of completions_dict (each maps
\* to True)
CompletionsDict(hs, cs, first_day, last_day) ==
  {Key(r[1], r[2]) :
     r \in {q \in BagToSet(cs) :
              /\ q[1] \in HabitIds(hs)
              /\ DateLE(first_day, q[2])
              /\ DateLE(q[2], last_day)}}

\* round(c / n * 100, 1) in tenths of a percent: to the nearest tenth, a tie
\* to the even one
Round1(c, n) ==
  LET q == (1000 * c) \div n
      r == (1000 * c) % n
  IN  IF 2 * r > n THEN q + 1
      ELSE IF 2 * r = n /\ q % 2 = 1 THEN q + 1
      ELSE q

\* Faulty variant of DayPercentage: every key of the month counts for every day.
DayPercentage_AllDays(dict, nhabits, current_date) ==
  IF nhabits # 0 THEN Round1(Cardinality(dict), nhabits) ELSE 0

\* lines 534-536
DayPercentage(dict, nhabits, current_date) ==
  LET suffix == FormatDate(current_date)
      day_completions == Cardinality({k \in dict : EndsWith(k, suffix)})
  IN  IF nhabits # 0 THEN Round1(day_completions, nhabits) ELSE 0

\* lines 531-541
DailyStats(dict, nhabits, year, month) ==
  [i \in 1..DaysInMonth(year, month) |->
     [day |-> i, percentage |-> DayPercentage(dict, nhabits, Date(year, month, i))]]

\* get_habits, lines 475-554.  today: datetime.now().date().  The habits are
\* listed in id order.
get_habits(hs, cs, year, month, today) ==
  LET first_day == FirstDay(year, month)
      last_day == LastDay(year, month)
      ids == SortedSeq(HabitIds(hs))
      dict == CompletionsDict(hs, cs, first_day, last_day)
      Row(id) ==
        LET h == CHOOSE x \in hs : x.id = id
            dates == HabitDates(cs, id)
        IN  [id |-> id, name |-> h.name, color |-> h.color,
             current_streak |-> CurrentStreak(dates, today, first_day, last_day),
             best_streak |-> BestStreak(dates, first_day, last_day)]
  IN  [status |-> 200, kind |-> "summary",
       habits |-> [i \in 1..Len(ids) |-> Row(ids[i])],
       completions |-> dict,
       daily_stats |-> DailyStats(dict, Cardinality(hs), year, month)]

(***************************************************************************)
(* The requests the model sends.                                           *)
(***************************************************************************)
Feb28 == Date(2024, 2, 28)

Feb29 == Date(2024, 2, 29)

Mar01 == Date(2024, 3, 1)

Mar02 == Date(2024, 3, 2)

Mar31 == Date(2024, 3, 31)

Apr01 == Date(2024, 4, 1)

\* The dates toggled in Spec and SpecRace: either side of a month boundary.
ToggleDates == {Feb29, Mar01}

\* The dates completed in the stores SpecAgg starts from: the end of a leap
\* February, the start of March, and the last day of March after a gap.
AggDates == {Feb28, Feb29, Mar01, Mar02, Mar31}

\* year and month of a month summary
Months == {<<2024, 2>>, <<2024, 3>>}

\* datetime.now().date() of a month summary in Spec
Todays == {Mar01, Apr01}

\* The summaries fetched in SpecAgg, <<year, month, today>>: of February
\* from inside it and from after it, of March from before it, from inside it
\* and from after it.
AggFetches ==
  { <<2024, 2, Feb28>>, <<2024, 2, Mar02>>,
    <<2024, 3, Feb28>>, <<2024, 3, Mar02>>, <<2024, 3, Apr01>> }

NameA == <<"a">>

LongName == Rep("a", MaxNameLen)

\* POST /api/habits bodies: no body, {}, a body without name, and names that
\* are empty, blank, padded, of MaxNameLen and MaxNameLen + 1 characters,
\* MaxNameLen characters inside padding, and null.
CreateBodies ==
  {JNull, EmptyObj, JObj([emoji |-> JStr(<<"x">>)])}
    \cup {JObj([name |-> v]) :
            v \in {JStr(<< >>), JStr(<<" ", " ">>), JStr(<<" ", "a", "\t">>),
                   JStr(NameA), JStr(LongName), JStr(LongName \o <<"a">>),
                   JStr(<<" ">> \o LongName \o <<" ">>), JNull}}

\* ids of DELETE requests and habit_id of toggles: 0 is never a habit
RequestIds == 0..MaxHabitId

\* POST /api/completions bodies
ToggleBodies ==
  {JNull, JObj([habit_id |-> JInt(1)]), JObj([date |-> JStr(FormatDate(Mar01))])}
    \cup {JObj([habit_id |-> JInt(i), date |-> JStr(FormatDate(d))]) :
            i \in RequestIds, d \in ToggleDates}
    \cup {JObj([habit_id |-> h, date |-> d]) :
            h \in {JInt(1)},
            d \in {JStr(<<"2", "0", "2", "4", "-", "0", "2", "-", "3", "0">>),
                   JStr(<<"2", "0", "2", "4", "-", "3", "-", "1">>),
                   JStr(<<"0", "1", "/", "0", "3", "/", "2", "0", "2", "4">>),
                   JInt(20240301)}}
    \cup {JObj([habit_id |-> h, date |-> JStr(FormatDate(Mar01))]) :
            h \in {JStr(<<"1">>), JStr(<<"x">>), JNull}}

(***************************************************************************)
(* The state machine.                                                      *)
(***************************************************************************)
Workers == {"w1", "w2"}

Idle == [pc |-> "idle"]

NoRequest == [op |-> "none"]

NoResponse == [status |-> 0, kind |-> "none"]

Store(hs, cs) == [habits |-> hs, completions |-> cs]

\* The tables as db.create_all() leaves them: no rows.
Init ==
  /\ habits = {}
  /\ completions = EmptyBag
  /\ req = NoRequest
  /\ resp = NoResponse
  /\ tx = "none"
  /\ pre = Store({}, EmptyBag)
  /\ prev = [kind |-> "other"]
  /\ inflight = [w \in Workers |-> Idle]
  /\ seeded = 0

\* The target of a toggle request that passed validation.
ToggleTarget(rq) ==
  <<IntOf(rq.data.f["habit_id"]).n, StrpDate(rq.data.f["date"]).date>>

\* What is remembered of the request answered last when the next one is
\* answered: of a successful toggle its target, of a successful delete its
\* id, and the tables before it.
Remember ==
  IF resp.kind = "toggled"
    THEN [kind |-> "toggled", target |-> ToggleTarget(req), store |-> pre]
  ELSE IF resp.kind = "deleted"
    THEN [kind |-> "deleted", habit_id |-> req.habit_id, store |-> pre]
  ELSE [kind |-> "other"]

\* A request in flight that read a row another transaction then deleted.
MarkGone(fl, cs) ==
  [w \in Workers |->
     IF fl[w].pc = "read" /\ fl[w].found
          /\ ~BagIn(Completion(fl[w].habit_id, fl[w].date), cs)
       THEN [fl[w] EXCEPT !.gone = TRUE]
       ELSE fl[w]]

\* A handler answers request rq with outcome out.
Answer(rq, out, fl) ==
  /\ habits' = out.habits
  /\ completions' = out.completions
  /\ req' = rq
  /\ resp' = out.resp
  /\ tx' = out.tx
  /\ pre' = Store(habits, completions)
  /\ prev' = Remember
  /\ inflight' = MarkGone(fl, out.completions)
  /\ seeded' = seeded

CreateHabit ==
  \E data \in CreateBodies, fail \in BOOLEAN :
    LET out == create_habit(habits, completions, data, fail)
    IN  /\ out.resp.kind = "created" => out.resp.id <= MaxHabitId
        /\ Answer([op |-> "create", data |-> data], out, inflight)

DeleteHabit ==
  \E habit_id \in RequestIds, fail \in BOOLEAN :
    Answer([op |-> "delete", habit_id |-> habit_id],
           delete_habit(habits, completions, habit_id, fail), inflight)

ToggleCompletion ==
  \E data \in ToggleBodies, fail \in BOOLEAN :
    Answer([op |-> "toggle", data |-> data],
           toggle_completion(habits, completions, data, fail), inflight)

\* A month summary is answered; today is what datetime.now() returns.
Fetch(year, month, today) ==
  Answer([op |-> "get", year |-> year, month |-> month, today |-> today],
         Outcome(habits, completions,
                 get_habits(habits, completions, year, month, today), "none"),
         inflight)

GetHabits == \E ym \in Months, today \in Todays : Fetch(ym[1], ym[2], today)

Next == CreateHabit \/ DeleteHabit \/ ToggleCompletion \/ GetHabits

\* Requests answered one at a time.
Spec == Init /\ [][Next]_vars

(***************************************************************************)
(* SpecAgg: the month summary over every store of at most MaxAggHabits     *)
(* habits whose completions lie in AggDates.  Each such store is one the   *)
(* requests above reach: habits created in id order, some deleted, rows    *)
(* toggled on.                                                             *)
(***************************************************************************)
AggHabitIds == 1..MaxAggHabits

AggHabits(ids) == {Habit(i, NameA, colors[((i - 1) % Len(colors)) + 1]) : i \in ids}

\* Every day of the leap February: a month completed from end to end.
FullFebruary == {Date(2024, 2, d) : d \in 1..DaysInMonth(2024, 2)}

InitAgg ==
  /\ \/ \E ids \in SUBSET AggHabitIds :
          /\ habits = AggHabits(ids)
          /\ \E rows \in SUBSET (ids \X AggDates) : completions = SetToBag(rows)
     \/ /\ habits = AggHabits({1})
        /\ completions = SetToBag({1} \X (FullFebruary \cup {Mar01}))
  /\ req = NoRequest
  /\ resp = NoResponse
  /\ tx = "none"
  /\ pre = Store(habits, completions)
  /\ prev = [kind |-> "other"]
  /\ inflight = [w \in Workers |-> Idle]
  /\ seeded = 0

\* One summary is fetched from the store a behaviour starts from.
GetHabitsAgg ==
  /\ req = NoRequest
  /\ \E f \in AggFetches : Fetch(f[1], f[2], f[3])

NextAgg == GetHabitsAgg

SpecAgg == InitAgg /\ [][NextAgg]_vars

(***************************************************************************)
(* SpecRace: toggle_completion requests that interleave.  Each reads       *)
(* (lines 606-624) in one step and writes and commits (lines 626-633) in a *)
(* later one; other requests, and habits created and deleted, come in      *)
(* between.  A request that reads and writes with nothing in between is    *)
(* the toggle of Spec.                                                     *)
(***************************************************************************)
RaceDates == {Mar01}

RaceBodies ==
  {JObj([habit_id |-> JInt(i), date |-> JStr(FormatDate(d))]) :
     i \in 1..MaxHabitId, d \in RaceDates}

RaceCreate ==
  LET data == JObj([name |-> JStr(NameA)])
      out == create_habit(habits, completions, data, FALSE)
  IN  /\ out.resp.kind = "created" => out.resp.id <= MaxHabitId
      /\ Answer([op |-> "create", data |-> data], out, inflight)

RaceDelete ==
  \E habit_id \in 1..MaxHabitId :
    Answer([op |-> "delete", habit_id |-> habit_id],
           delete_habit(habits, completions, habit_id, FALSE), inflight)

\* Lines 606-624 of a request that passes validation: the row is looked up.
ToggleRead(w) ==
  /\ inflight[w].pc = "idle"
  /\ \E data \in RaceBodies :
       LET v == toggle_validate(habits, completions, data)
       IN  /\ v.ok
           /\ inflight' = [inflight EXCEPT ![w] =
                [pc |-> "read", data |-> data,
                 habit_id |-> v.habit_id, date |-> v.date,
                 found |-> FirstCompletion(completions, v.habit_id, v.date),
                 gone |-> FALSE]]
  /\ UNCHANGED <<habits, completions, req, resp, tx, pre, prev, seeded>>

\* Lines 626-633 of that request.  When the row it read was deleted since,
\* its DELETE matches that row's id only: no row, or (reuse) a row inserted
\* since for the same pair that was given the same id.
ToggleWrite(w) ==
  /\ inflight[w].pc = "read"
  /\ \E fail \in BOOLEAN, reuse \in BOOLEAN :
       LET f == inflight[w]
           stale == f.found /\ f.gone /\ ~reuse
           out == IF stale /\ ~fail
                    THEN Outcome(habits, completions,
                                 [status |-> 200, kind |-> "toggled"], "commit")
                    ELSE toggle_write(habits, completions, f.habit_id, f.date,
                                      f.found, fail)
       IN  Answer([op |-> "toggle", data |-> f.data, worker |-> w,
                   found |-> f.found, fail |-> fail], out,
                  [inflight EXCEPT ![w] = Idle])

NextRace ==
  RaceCreate \/ RaceDelete \/ (\E w \in Workers : ToggleRead(w) \/ ToggleWrite(w))

SpecRace == Init /\ [][NextRace]_vars

(***************************************************************************)
(* SpecStart: the application is started again and again (__main__, lines  *)
(* 675-677, runs init_db each time) and serves requests in between.  No    *)
(* request is served before the first start.                               *)
(***************************************************************************)
\* sample_habits, lines 649-654 (the emoji left out, as in Habit rows)
sample_habits ==
  << [name |-> <<"W", "a", "k", "e", " ", "u", "p", " ", "a", "t", " ", "6", " ", "A", "M">>,
      color |-> "bg-orange-100"],
     [name |-> <<"G", "y", "m">>,
      color |-> "bg-blue-100"],
     [name |-> <<"E", "x", "a", "m", " ", "p", "r", "e", "p", "a", "r", "a", "t", "i", "o", "n">>,
      color |-> "bg-purple-100"],
     [name |-> <<"B", "u", "d", "g", "e", "t", " ", "T", "r", "a", "c", "k", "i", "n", "g">>,
      color |-> "bg-green-100"] >>

\* What a start reports: init_db answers no request.
StartResp(kind) == [status |-> 0, kind |-> kind]

\* init_db, lines 641-664.  fail: db.session.commit() of line 660 raises; the
\* except branch rolls back and the start goes on.  The rows are inserted in
\* the order they are added and get consecutive ids.
init_db(hs, cs, fail) ==
  IF Cardinality(hs) # 0
    THEN Outcome(hs, cs, StartResp("started"), "none")
  ELSE IF fail
    THEN Outcome(hs, cs, StartResp("started"), "rollback")
  ELSE LET first == NewRowId(HabitIds(hs))
       IN  Outcome(hs \cup {Habit(first + i - 1, sample_habits[i].name,
                                  sample_habits[i].color) :
                              i \in 1..Len(sample_habits)},
                   cs, StartResp("seeded"), "commit")

\* The application has been started.
Started == req # NoRequest

\* A start of the application: init_db runs.
InitDb ==
  \E fail \in BOOLEAN :
    LET out == init_db(habits, completions, fail)
        n == IF out.resp.kind = "seeded" THEN 1 ELSE 0
    IN  /\ seeded + n <= MaxSeeds
        /\ habits' = out.habits
        /\ completions' = out.completions
        /\ req' = [op |-> "init"]
        /\ resp' = out.resp
        /\ tx' = out.tx
        /\ pre' = Store(habits, completions)
        /\ prev' = Remember
        /\ inflight' = inflight
        /\ seeded' = seeded + n

\* ids of the DELETE requests of SpecStart: those the sample habits get
StartIds == 1..Len(sample_habits)

StartCreate == Started /\ RaceCreate

StartDelete ==
  /\ Started
  /\ \E habit_id \in StartIds :
       Answer([op |-> "delete", habit_id |-> habit_id],
              delete_habit(habits, completions, habit_id, FALSE), inflight)

StartToggle ==
  /\ Started
  /\ \E data \in RaceBodies :
       Answer([op |-> "toggle", data |-> data],
              toggle_completion(habits, completions, data, FALSE), inflight)

NextStart == InitDb \/ StartCreate \/ StartDelete \/ StartToggle

SpecStart == Init /\ [][NextStart]_vars

(***************************************************************************)
(* Properties.                                                             *)
(***************************************************************************)
HasRow(cs, habit_id, date) == BagIn(<<habit_id, date>>, cs)

\* The rows of the habits other than habit_id are the same in cs and ds.
OthersSame(cs, ds, habit_id) ==
  \A r \in BagToSet(cs) \cup BagToSet(ds) :
    r[1] # habit_id => CopiesIn(r, cs) = CopiesIn(r, ds)

\* Two toggles of the same pair, both answered 200, one right after the other.
ToggledTwice ==
  /\ req.op = "toggle"
  /\ resp.kind = "toggled"
  /\ prev.kind = "toggled"
  /\ prev.target = ToggleTarget(req)

\* C1: two successful toggle-completion requests for the same (habit, date),
\* one right after the other, leave the Completion table as it was before
\* the first (every pair has the rows it had) and the Habit table unchanged.
C1_ToggleTwiceRestores ==
  ToggledTwice =>
    /\ completions = prev.store.completions
    /\ habits = prev.store.habits

\* C1 witness: the pair had a row before the first toggle; the first deleted
\* it and the second put it back.
C1_Witness ==
  /\ ToggledTwice
  /\ HasRow(prev.store.completions, prev.target[1], prev.target[2])
  /\ ~HasRow(pre.completions, prev.target[1], prev.target[2])
  /\ HasRow(completions, prev.target[1], prev.target[2])

\* C2: in every state reached by create-habit, delete-habit and
\* toggle-completion requests answered one at a time, failed ones included,
\* the Completion table holds at most one row for each (habit_id, date).
C2_AtMostOneRowPerPair ==
  \A r \in BagToSet(completions) : CopiesIn(r, completions) <= 1

\* C2 witness: a row was deleted and inserted again by two toggles while
\* every other pair of the model holds a row.
C2_Witness ==
  /\ ToggledTwice
  /\ BagCardinality(completions) = Cardinality((1..MaxHabitId) \X ToggleDates)
  /\ BagCardinality(pre.completions) < BagCardinality(completions)

\* The habit ids a month summary lists, and whether its completion map has
\* a key of habit_id.
ListedIds(r) == {r.habits[i].id : i \in DOMAIN r.habits}

HasKeyOf(r, habit_id) ==
  LET p == IntToStr(habit_id) \o <<"-">>
  IN  \E k \in r.completions : Len(p) <= Len(k) /\ SubSeq(k, 1, Len(p)) = p

\* C3: after a successful delete-habit request for h no Completion row of h
\* remains, h is no habit, and the other habits and their completions are
\* untouched; and every month summary lists no habit and holds no
\* completion key of an id that is not a habit at the time (h, until an id
\* is created again).
C3_DeleteCascades ==
  /\ resp.kind = "deleted" =>
       /\ \A r \in BagToSet(completions) : r[1] # req.habit_id
       /\ habits = {h \in pre.habits : h.id # req.habit_id}
       /\ habits # pre.habits
       /\ OthersSame(completions, pre.completions, req.habit_id)
  /\ resp.kind = "summary" =>
       \A id \in RequestIds \ HabitIds(habits) :
         id \notin ListedIds(resp) /\ ~HasKeyOf(resp, id)

\* C3 witness: a summary of March fetched right after the delete of a habit
\* that had a completion in March, another habit's March completion kept.
C3_Witness ==
  /\ resp.kind = "summary"
  /\ req.month = 3
  /\ prev.kind = "deleted"
  /\ HasRow(prev.store.completions, prev.habit_id, Mar01)
  /\ \E id \in HabitIds(habits) : HasRow(completions, id, Mar01) /\ HasKeyOf(resp, id)

\* C4: a delete-habit request whose id names no habit is answered 404, not
\* 500, and leaves both tables unchanged.
C4_DeleteMissingIs404 ==
  (req.op = "delete" /\ ~HabitExists(pre.habits, req.habit_id)) =>
    /\ resp.status = 404
    /\ habits = pre.habits
    /\ completions = pre.completions

\* What the code does there: 500 with the generic message, after a rollback,
\* the tables unchanged.
C4_DeleteMissingIs500 ==
  (req.op = "delete" /\ ~HabitExists(pre.habits, req.habit_id)) =>
    /\ resp = ErrorResp(500, "Failed to delete habit")
    /\ tx = "rollback"
    /\ habits = pre.habits
    /\ completions = pre.completions

C4_Witness ==
  /\ req.op = "delete"
  /\ ~HabitExists(pre.habits, req.habit_id)
  /\ pre.habits # {}

\* s without its leading and trailing whitespace: from its first character
\* that is no whitespace to its last.
Trimmed(s) ==
  LET keep == {i \in 1..Len(s) : ~IsSpace(s[i])}
  IN  IF keep = {} THEN << >>
      ELSE SubSeq(s, CHOOSE i \in keep : \A j \in keep : i <= j,
                     CHOOSE i \in keep : \A j \in keep : j <= i)

\* The name a create-habit request gives: the text of the value under the
\* key name (null reads None), trimmed; none when there is no such key.
GivenName(data) == Trimmed(StrOf(data.f["name"]))

NameGiven(data) == HasKey(data, "name")

NameAccepted(data) ==
  NameGiven(data) /\ Len(GivenName(data)) >= 1 /\ Len(GivenName(data)) <= MaxNameLen

Unchanged == habits = pre.habits /\ completions = pre.completions

\* Exactly one habit was added, named name, its id the one answered.
OneHabitAdded(name) ==
  /\ resp.status = 201
  /\ resp.kind = "created"
  /\ resp.id \notin HabitIds(pre.habits)
  /\ \E h \in habits :
       /\ h.id = resp.id
       /\ h.name = name
       /\ habits = pre.habits \cup {h}
  /\ Cardinality(habits) = Cardinality(pre.habits) + 1
  /\ completions = pre.completions

\* C5 as claimed: a create-habit request adds a habit if and only if its
\* trimmed name has 1 to 100 characters; otherwise it is answered 400 and
\* the tables are unchanged; on success exactly one habit is added, with the
\* trimmed name, and 201 carries its id.
C5_CreateIffValidName ==
  req.op = "create" =>
    /\ habits # pre.habits <=> NameAccepted(req.data)
    /\ ~NameAccepted(req.data) => resp.status = 400 /\ Unchanged
    /\ habits # pre.habits => OneHabitAdded(GivenName(req.data))

\* C5 amended: a habit is added only if the trimmed name has 1 to 100
\* characters, and then it is added unless the commit fails, in which case
\* the answer is 500 after a rollback and the tables are unchanged.
C5_CreateValidNameOrFails ==
  req.op = "create" =>
    /\ habits # pre.habits => NameAccepted(req.data)
    /\ ~NameAccepted(req.data) => resp.status = 400 /\ tx = "none" /\ Unchanged
    /\ NameAccepted(req.data) =>
         \/ OneHabitAdded(GivenName(req.data)) /\ tx = "commit"
         \/ /\ resp = ErrorResp(500, "Failed to create habit")
            /\ tx = "rollback"
            /\ Unchanged

\* C5 witness: a second habit is created from a name of MaxNameLen
\* characters inside whitespace, and stored trimmed.
C5_Witness ==
  /\ req.op = "create"
  /\ resp.kind = "created"
  /\ StrOf(req.data.f["name"]) = <<" ">> \o LongName \o <<" ">>
  /\ pre.habits # {}
  /\ \E h \in habits : h.id = resp.id /\ h.name = LongName

(***************************************************************************)
(* Properties of the month summary.  They read the request (year, month,   *)
(* today), the tables and the response, and count days of the target month *)
(* on which a habit has a row.                                             *)
(***************************************************************************)
IsSummary == req.op = "get" /\ resp.kind = "summary"

NDays == DaysInMonth(req.year, req.month)

\* habit id has a Completion row on day k of the target month
Done(id, k) == HasRow(completions, id, Date(req.year, req.month, k))

\* the completed days of the target month from day s on, up to the first
\* day without a row
RECURSIVE RunFrom(_, _)
RunFrom(id, s) == IF s <= NDays /\ Done(id, s) THEN 1 + RunFrom(id, s + 1) ELSE 0

\* the longest run of consecutive completed days of the target month
LongestRun(id) == SetMax({0} \cup {RunFrom(id, s) : s \in 1..NDays})

\* the length of the run of completed days of the target month that ends on
\* day k: the largest n <= k with days k-n+1..k all completed
TrailingRun(id, k) ==
  SetMax({n \in 0..k : \A j \in (k - n + 1)..k : Done(id, j)})

\* p tenths of a percent is c / n * 100 rounded to one decimal place
NearestTenth(p, c, n) ==
  LET e == 1000 * c - p * n
  IN  2 * (IF e < 0 THEN -e ELSE e) <= n

\* round(c / n * 100, 1) for up to nine habits
RoundsToNearestTenth ==
  \A n \in 1..9 : \A c \in 0..n : NearestTenth(Round1(c, n), c, n)

\* C6: daily_stats has one entry per day of the month in ascending day
\* order; the entry of day d has the percentage (habits with a row on day d)
\* / (habits) * 100 rounded to one decimal place, and 0 when there are no
\* habits.
C6_DailyPercentage ==
  /\ RoundsToNearestTenth
  /\ IsSummary =>
       /\ Len(resp.daily_stats) = NDays
       /\ \A d \in 1..NDays :
            LET e == resp.daily_stats[d]
                c == Cardinality({h \in habits : Done(h.id, d)})
            IN  /\ e.day = d
                /\ IF habits = {} THEN e.percentage = 0
                   ELSE NearestTenth(e.percentage, c, Cardinality(habits))

\* C6 witness: a summary of March over two habits, both completed on the
\* 1st (100.0), one on the 2nd (50.0), none on the 31st.
C6_Witness ==
  /\ IsSummary
  /\ req.month = 3
  /\ Cardinality(habits) = 2
  /\ resp.daily_stats[1].percentage = 1000
  /\ resp.daily_stats[2].percentage = 500
  /\ resp.daily_stats[31].percentage = 0

\* best_streak of March for completions on 3, 4, 5 and 10 March
BestStreakOfExample ==
  BestStreak(<<Date(2024, 3, 3), Date(2024, 3, 4), Date(2024, 3, 5), Date(2024, 3, 10)>>,
             FirstDay(2024, 3), LastDay(2024, 3))

\* C7: best_streak is the length of the longest run of consecutive days
\* among the habit's completed dates inside the target month, 0 when it has
\* none there; completions on days 3, 4, 5 and 10 give 3.
C7_BestStreak ==
  /\ BestStreakOfExample = 3
  /\ IsSummary =>
       \A i \in DOMAIN resp.habits :
         resp.habits[i].best_streak = LongestRun(resp.habits[i].id)

\* C7 witness: a summary of March for a habit completed on 29 February and
\* on 1, 2 and 31 March: the best streak is 2.
C7_Witness ==
  /\ IsSummary
  /\ req.month = 3
  /\ \E i \in DOMAIN resp.habits :
       /\ \A d \in {Feb29, Mar01, Mar02, Mar31} : HasRow(completions, resp.habits[i].id, d)
       /\ resp.habits[i].best_streak = 2

TodayInMonth == InMonth(req.today, req.year, req.month)

\* C8: when today lies inside the target month, current_streak is the
\* number of consecutive completed days counted back from today, stopping
\* at the first uncompleted day or at the first day of the month; it is 0
\* when today is not completed, whatever the preceding month holds.
C8_CurrentStreakInMonth ==
  (IsSummary /\ TodayInMonth) =>
    \A i \in DOMAIN resp.habits :
      LET h == resp.habits[i]
      IN  /\ h.current_streak = TrailingRun(h.id, req.today.d)
          /\ ~Done(h.id, req.today.d) => h.current_streak = 0

\* C8 witness: today is 2 March, the habit is completed on 28 and 29
\* February and on 1 and 2 March: the streak of March is 2.
C8_Witness ==
  /\ IsSummary
  /\ req.month = 3
  /\ req.today = Mar02
  /\ \E i \in DOMAIN resp.habits :
       /\ \A d \in {Feb28, Feb29, Mar01, Mar02} : HasRow(completions, resp.habits[i].id, d)
       /\ resp.habits[i].current_streak = 2

\* C9 as claimed: when today is outside the target month, before it or
\* after it, current_streak is the length of the run of completed days that
\* ends on the last day of the target month.
C9_StreakFromLastDay ==
  (IsSummary /\ ~TodayInMonth) =>
    \A i \in DOMAIN resp.habits :
      resp.habits[i].current_streak = TrailingRun(resp.habits[i].id, NDays)

\* C9 amended: that holds when today is after the target month; when today
\* is before it, current_streak is 0.
C9_StreakFromLastDayWhenPast ==
  (IsSummary /\ ~TodayInMonth) =>
    \A i \in DOMAIN resp.habits :
      resp.habits[i].current_streak =
        IF DateLT(LastDay(req.year, req.month), req.today)
          THEN TrailingRun(resp.habits[i].id, NDays)
          ELSE 0

\* C9 witness: today is 2 March, the summary is of February, the habit is
\* completed on 28 and 29 February and on 1 March: the streak is 2.
C9_Witness ==
  /\ IsSummary
  /\ req.month = 2
  /\ req.today = Mar02
  /\ \E i \in DOMAIN resp.habits :
       /\ HasRow(completions, resp.habits[i].id, Feb28)
       /\ HasRow(completions, resp.habits[i].id, Feb29)
       /\ HasRow(completions, resp.habits[i].id, Mar01)
       /\ resp.habits[i].current_streak = 2

\* The rows of cs dated inside a month.
RowsOfMonth(cs, year, month) ==
  LET drop == {r \in BagToSet(cs) : ~InMonth(r[2], year, month)}
  IN  cs (-) [r \in drop |-> cs[r]]

\* C10: the summary of month M depends on the habits, today and the rows
\* dated inside M only: it is the summary of the store that holds those rows
\* and no other, so two stores with the same habits that agree on the rows
\* inside M get the same streaks, completion map and daily_stats.
C10_OnlyRowsOfMonth ==
  IsSummary =>
    LET rows == RowsOfMonth(completions, req.year, req.month)
    IN  resp = get_habits(habits, rows, req.year, req.month, req.today)

\* C10 witness: a summary of March on 2 March for a habit completed on 28
\* and 29 February and on 1 and 2 March and for one completed on 1 and 2
\* March only: the streaks of both are 2.
C10_Witness ==
  /\ IsSummary
  /\ req.month = 3
  /\ req.today = Mar02
  /\ \E i, j \in DOMAIN resp.habits :
       /\ \A d \in {Feb28, Feb29, Mar01, Mar02} : HasRow(completions, resp.habits[i].id, d)
       /\ \A d \in {Mar01, Mar02} : HasRow(completions, resp.habits[j].id, d)
       /\ \A d \in {Feb28, Feb29} : ~HasRow(completions, resp.habits[j].id, d)
       /\ resp.habits[i].current_streak = 2
       /\ resp.habits[i].best_streak = 2
       /\ resp.habits[j].current_streak = 2
       /\ resp.habits[j].best_streak = 2

\* Whether a toggle body lacks habit_id or date (no body and {} lack both).
FieldsMissing(data) == ~HasKey(data, "habit_id") \/ ~HasKey(data, "date")

\* A well-formed YYYY-MM-DD calendar date: a string of four digits, a hyphen,
\* two digits, a hyphen and two digits that names a day of the calendar.
WellFormedDate(v) ==
  /\ v.t = "str"
  /\ Len(v.s) = 10
  /\ \A i \in {1, 2, 3, 4, 6, 7, 9, 10} : IsDigit(v.s[i])
  /\ v.s[5] = "-"
  /\ v.s[8] = "-"
  /\ ValidDate(1000 * DigitVal(v.s[1]) + 100 * DigitVal(v.s[2])
                 + 10 * DigitVal(v.s[3]) + DigitVal(v.s[4]),
               10 * DigitVal(v.s[6]) + DigitVal(v.s[7]),
               10 * DigitVal(v.s[9]) + DigitVal(v.s[10]))

\* The toggle request answered last lacks a field or has a date that is not
\* a well-formed YYYY-MM-DD calendar date.
MalformedToggle ==
  /\ req.op = "toggle"
  /\ FieldsMissing(req.data) \/ ~WellFormedDate(req.data.f["date"])

\* C11: a toggle-completion request whose date is not a well-formed
\* YYYY-MM-DD calendar date, or that lacks habit_id or date, is answered 400
\* and leaves the Completion table as it was, whether or not the habit exists.
C11_MalformedToggleIs400 ==
  MalformedToggle =>
    /\ resp.status = 400
    /\ completions = pre.completions

\* What the code does with such a request whose habit_id is an integer: a
\* missing field and a date string strptime refuses are answered 400; a date
\* that is no string raises TypeError and is answered 500 after a rollback;
\* a date string strptime accepts (2024-3-1) is toggled like any other.  The
\* table changes only in the last case.
C11_MalformedToggleAnswers ==
  (MalformedToggle /\ (HasKey(req.data, "habit_id") => IntOf(req.data.f["habit_id"]).ok)) =>
    IF FieldsMissing(req.data)
      THEN /\ resp = ErrorResp(400, "habit_id and date are required")
           /\ completions = pre.completions
    ELSE IF req.data.f["date"].t # "str"
      THEN /\ resp = ErrorResp(500, "Failed to toggle completion")
           /\ tx = "rollback"
           /\ completions = pre.completions
    ELSE IF ~StrpDate(req.data.f["date"]).ok
      THEN /\ resp = ErrorResp(400, "Invalid date format. Use YYYY-MM-DD")
           /\ completions = pre.completions
    ELSE resp.status \in {200, 500}

\* C11 reached: a date sent as a JSON number for a habit that exists, answered
\* 500, nothing written.
C11_Witness ==
  /\ MalformedToggle
  /\ ~FieldsMissing(req.data)
  /\ req.data.f["date"].t = "int"
  /\ HabitExists(pre.habits, IntOf(req.data.f["habit_id"]).n)
  /\ resp.status = 500
  /\ completions = pre.completions

\* The request answered last would have committed, had its commit not
\* raised: on the tables it found, the handler without a failure commits.
WouldCommit ==
  CASE req.op = "create" ->
         create_habit(pre.habits, pre.completions, req.data, FALSE).tx = "commit"
    [] req.op = "delete" ->
         delete_habit(pre.habits, pre.completions, req.habit_id, FALSE).tx = "commit"
    [] req.op = "toggle" ->
         toggle_completion(pre.habits, pre.completions, req.data, FALSE).tx = "commit"
    [] OTHER -> FALSE

\* The persistence step of the request answered last failed.
PersistenceFailed == WouldCommit /\ tx = "rollback"

\* The generic message of each handler's except Exception branch.
GenericMessage(op) ==
  CASE op = "create" -> "Failed to create habit"
    [] op = "delete" -> "Failed to delete habit"
    [] op = "toggle" -> "Failed to toggle completion"

\* C12: a create-habit, delete-habit or toggle-completion request whose
\* persistence step fails is rolled back and answered 500 with the handler's
\* generic message, and both tables are exactly as before the request; and
\* no such request that did not commit changed either table.
C12_FailedRequestIsAtomic ==
  /\ PersistenceFailed =>
       /\ resp = ErrorResp(500, GenericMessage(req.op))
       /\ habits = pre.habits
       /\ completions = pre.completions
  /\ (req.op \in {"create", "delete", "toggle"} /\ tx # "commit") =>
       /\ habits = pre.habits
       /\ completions = pre.completions

\* C12 reached: the commit of a delete of a habit that has a completion
\* failed; the habit and its row are both still there.
C12_Witness ==
  /\ req.op = "delete"
  /\ PersistenceFailed
  /\ HabitExists(habits, req.habit_id)
  /\ \E d \in ToggleDates : HasRow(completions, req.habit_id, d)

\* No (habit_id, date) pair has two rows.
NoDuplicateRows == \A r \in BagToSet(completions) : CopiesIn(r, completions) <= 1

\* The toggle answered last read its row before the toggle of the same pair
\* answered right before it committed: what it read (req.found) is what the
\* table held before that commit and not what it holds after.
Overlapped ==
  /\ req.op = "toggle"
  /\ prev.kind = "toggled"
  /\ prev.target = ToggleTarget(req)
  /\ HasRow(prev.store.completions, prev.target[1], prev.target[2]) = req.found
  /\ HasRow(pre.completions, prev.target[1], prev.target[2]) # req.found

\* C13 as stated: when two toggles of one pair both read before either
\* commits, no state holds two rows of the pair, the second to write is
\* refused, rolls back and is answered 500, and the table stays as the first
\* left it.
C13_RaceSecondAnswered500 ==
  /\ NoDuplicateRows
  /\ Overlapped =>
       /\ resp.status = 500
       /\ tx = "rollback"
       /\ completions = pre.completions

\* C13: when two toggles of one pair both read before either commits, no
\* state holds two rows of the pair and the table ends as the first to
\* commit left it, the result of one toggle.  When both read no row, the
\* unique index refuses the second insert: that request rolls back and is
\* answered 500.  When both read the row, the second's delete matches no
\* row: it is answered 200 unless its own commit fails.
C13_RaceOneToggleTakesEffect ==
  /\ NoDuplicateRows
  /\ Overlapped =>
       /\ completions = pre.completions
       /\ HasRow(completions, prev.target[1], prev.target[2]) # req.found
       /\ ~req.found => (resp = ErrorResp(500, "Failed to toggle completion")
                           /\ tx = "rollback")
       /\ req.found => resp.status = (IF req.fail THEN 500 ELSE 200)

\* C13 reached: both requests read no row, the first inserted it, the second
\* insert, whose commit was not made to fail, is refused and answered 500;
\* the pair has one row.
C13_Witness ==
  /\ Overlapped
  /\ ~req.found
  /\ ~req.fail
  /\ resp.status = 500
  /\ CopiesIn(ToggleTarget(req), completions) = 1

\* The toggle answered last names, with an integer, an id that was no habit.
ToggleOfMissingHabit ==
  /\ req.op = "toggle"
  /\ ~FieldsMissing(req.data)
  /\ IntOf(req.data.f["habit_id"]).ok
  /\ ~(IntOf(req.data.f["habit_id"]).n \in HabitIds(pre.habits))

\* C14: with requests answered one at a time, every Completion row's
\* habit_id is the id of a habit of the Habit table; a toggle for an id that
\* is no habit inserts no row; and a habit just created has no row, also
\* when its id was a deleted habit's.
C14_RowsNameHabits ==
  /\ \A r \in BagToSet(completions) : r[1] \in HabitIds(habits)
  /\ ToggleOfMissingHabit =>
       /\ completions = pre.completions
       /\ resp.status # 200
  /\ resp.kind = "created" =>
       \A r \in BagToSet(completions) : r[1] # resp.id

\* C14 reached: a habit is created right after the delete of a habit that
\* had a completion, and is given that habit's id.
C14_Witness ==
  /\ resp.kind = "created"
  /\ prev.kind = "deleted"
  /\ prev.habit_id = resp.id
  /\ \E d \in ToggleDates : HasRow(prev.store.completions, resp.id, d)
  /\ BagToSet(completions) # {}

\* The sample habits as init_db leaves them in an empty table.
SampleRows ==
  {Habit(i, sample_habits[i].name, sample_habits[i].color) : i \in 1..Len(sample_habits)}

\* C15: init_db inserts the sample habits only into an empty Habit table,
\* and over any sequence of starts and requests it inserts them at most once.
C15_SamplesInsertedOnce ==
  /\ (req.op = "init" /\ resp.kind = "seeded") => pre.habits = {}
  /\ seeded <= 1

\* What the code does: a start inserts the four sample habits exactly when
\* the Habit table is empty and the commit succeeds, however often they were
\* inserted before, and changes nothing otherwise.
C15_SamplesIntoEmptyTable ==
  req.op = "init" =>
    /\ completions = pre.completions
    /\ IF pre.habits = {} /\ tx # "rollback"
         THEN resp.kind = "seeded" /\ habits = SampleRows
         ELSE resp.kind = "started" /\ habits = pre.habits

\* C15 reached: the sample habits are inserted a second time, by a start
\* that found the Habit table emptied by delete-habit requests.
C15_Witness ==
  /\ req.op = "init"
  /\ resp.kind = "seeded"
  /\ seeded = 2
  /\ habits = SampleRows

\* C16: in every month summary every habit's current_streak is at most its
\* best_streak, and both lie between 0 and the number of days of the target
\* month, whatever today is.
C16_CurrentAtMostBest ==
  IsSummary =>
    \A i \in DOMAIN resp.habits :
      /\ 0 <= resp.habits[i].current_streak
      /\ resp.habits[i].current_streak <= resp.habits[i].best_streak
      /\ resp.habits[i].best_streak <= NDays

\* C16 reached: February, completed on each of its 29 days, summarised on 2
\* March: both streaks are the number of days of the month.
C16_Witness ==
  /\ IsSummary
  /\ req.month = 2
  /\ req.today = Mar02
  /\ \E i \in DOMAIN resp.habits :
       /\ resp.habits[i].current_streak = NDays
       /\ resp.habits[i].best_streak = NDays
       /\ HasRow(completions, resp.habits[i].id, Mar01)

====
